---- MODULE Spec2Model ----
(***************************************************************************)
(* Model of common/searchattribute/search_attirbute.go: BuildTypeMap,      *)
(* GetType, ApplyTypeMap, convertDynamicConfigType and setMetadataType.    *)
(*                                                                         *)
(* Go values are represented as follows.                                   *)
(*  - A Go map is a record [isNil, kv]: kv is the function from its keys   *)
(*    to its values, isNil tells the nil map from an allocated one.        *)
(*  - enumspb.IndexedValueType is an int32; a value is its numeric code.   *)
(*  - A 64-bit int is its two 32-bit words [hi, lo], both read as signed   *)
(*    int32: the conversion int -> int32 keeps the low word.               *)
(*  - A float64 is a number of halves (num = 5 is 2.5): the conversion     *)
(*    float64 -> int32 truncates toward zero.                              *)
(*  - Go ranges over a map in an unspecified order: every operation that   *)
(*    ranges over a map takes the order of the visit as an input.          *)
(***************************************************************************)
EXTENDS Integers, Sequences, FiniteSets, TLC

VARIABLES
    validSearchAttributesFn,  \* the dynamic config collaborator handed to BuildTypeMap
    built,                    \* BuildTypeMap has returned
    typeMap,                  \* the type map the caller holds: what BuildTypeMap returned (nil before)
    buildErr,                 \* the error BuildTypeMap returned
    buildSeen,                \* number of entries the failed build had coerced before the bad one
    getRes,                   \* what the last GetType call returned
    searchAttributes,         \* IndexedFields of the *commonpb.SearchAttributes
    applied,                  \* ApplyTypeMap has been called with typeMap as it is now
    before,                   \* IndexedFields when that ApplyTypeMap call started
    panicMsg,                 \* "" or the panic that ended the last ApplyTypeMap call
    repeated                  \* the last two ApplyTypeMap calls both had typeMap as it is now

vars == <<validSearchAttributesFn, built, typeMap, buildErr, buildSeen, getRes,
          searchAttributes, applied, before, panicMsg, repeated>>

buildVars == <<validSearchAttributesFn, built, typeMap, buildErr, buildSeen, getRes>>

applyVars == <<searchAttributes, applied, before, panicMsg, repeated>>

---------------------------------------------------------------------------
\* Bounds of the model.

\* number of attribute names in configurations, type maps and collections
MaxNames == 2

\* int descriptors are sampled with high words in -MaxHi..MaxHi
MaxHi == 1

NameUniverse == <<"a", "b", "c", "d", "e">>

Names == {NameUniverse[i] : i \in 1..MaxNames}

\* a name no configuration, type map or collection holds
UnknownName == "zz"

\* all sequences that visit each element of S once: the orders of a range over a map
Orders(S) ==
    {o \in [1..Cardinality(S) -> S] : \A i, j \in 1..Cardinality(S) : o[i] = o[j] => i = j}

---------------------------------------------------------------------------
\* Errors and the enumeration.

NoErr == "nil"

ErrInvalidName == "invalid search attribute name"

ErrInvalidType == "invalid search attribute type"

ErrTypeMapIsEmpty == "search attributes type map is empty"

MetadataType == "type"

INDEXED_VALUE_TYPE_UNSPECIFIED == 0

\* the canonical names of the enumeration, in the order of their numeric codes
IndexedValueTypeNames ==
    <<"Unspecified", "String", "Keyword", "Int", "Double", "Bool", "Datetime">>

\* enumspb.IndexedValueType_name: numeric code -> canonical name, one entry per member
IndexedValueType_name == [c \in 0..(Len(IndexedValueTypeNames) - 1) |-> IndexedValueTypeNames[c + 1]]

\* enumspb.IndexedValueType_value: canonical name -> numeric code
IndexedValueType_value ==
    [s \in {IndexedValueTypeNames[i] : i \in 1..Len(IndexedValueTypeNames)} |->
        CHOOSE c \in DOMAIN IndexedValueType_name : IndexedValueType_name[c] = s]

---------------------------------------------------------------------------
\* Go maps.

EmptyKV == [n \in {} |-> 0]

NilMap == [isNil |-> TRUE, kv |-> EmptyKV]

MakeMap(f) == [isNil |-> FALSE, kv |-> f]

\* len(m): 0 for the nil map
MapLen(m) == Cardinality(DOMAIN m.kv)

\* m with m[k] = v
Put(f, k, v) == [x \in (DOMAIN f) \cup {k} |-> IF x = k THEN v ELSE f[x]]

---------------------------------------------------------------------------
\* Descriptors: the interface{} values of the dynamic config map.

IntDesc(hi, lo) == [shape |-> "int", hi |-> hi, num |-> lo, str |-> ""]

FloatDesc(halves) == [shape |-> "float64", hi |-> 0, num |-> halves, str |-> ""]

StringDesc(s) == [shape |-> "string", hi |-> 0, num |-> 0, str |-> s]

EnumDesc(c) == [shape |-> "IndexedValueType", hi |-> 0, num |-> c, str |-> ""]

BoolDesc == [shape |-> "bool", hi |-> 0, num |-> 0, str |-> "true"]

IntSamples ==
    {IntDesc(0, lo) : lo \in {-1, 0, 1, 2, 6, 7}}
        \cup {IntDesc(hi, lo) : hi \in (-MaxHi..MaxHi) \ {0}, lo \in {0, 2}}

FloatSamples == {FloatDesc(h) : h \in {-1, 4, 5, 14}}

StringSamples ==
    {StringDesc(s) : s \in {"Unspecified", "Keyword", "Datetime", "keyword", ""}}

EnumSamples == {EnumDesc(c) : c \in {0, 3, 7}}

Descriptors == IntSamples \cup FloatSamples \cup StringSamples \cup EnumSamples \cup {BoolDesc}

\* the collaborators: absent, or returning a mapping of some names to descriptors
ConfigFns ==
    {[isNil |-> TRUE, kv |-> EmptyKV]}
        \cup {[isNil |-> FALSE, kv |-> f] : f \in UNION {[S -> Descriptors] : S \in SUBSET Names}}

---------------------------------------------------------------------------
\* convertDynamicConfigType and BuildTypeMap.

\* int32(t) of a float64 t: the fraction is dropped, toward zero
Float64ToInt32(halves) == IF halves >= 0 THEN halves \div 2 ELSE -((-halves) \div 2)

\* int32(t) of an int t: the low 32 bits
IntToInt32(hi, lo) == lo

\* line 145: the Unspecified value with an error wrapping ErrInvalidType
InvalidType == [ivt |-> INDEXED_VALUE_TYPE_UNSPECIFIED, err |-> ErrInvalidType]

convertDynamicConfigType(d) ==
    CASE d.shape = "float64" ->
            LET ivt == Float64ToInt32(d.num)
            IN  IF ivt \in DOMAIN IndexedValueType_name
                THEN [ivt |-> ivt, err |-> NoErr] ELSE InvalidType
      [] d.shape = "int" ->
            LET ivt == IntToInt32(d.hi, d.num)
            IN  IF ivt \in DOMAIN IndexedValueType_name
                THEN [ivt |-> ivt, err |-> NoErr] ELSE InvalidType
      [] d.shape = "string" ->
            IF d.str \in DOMAIN IndexedValueType_value
            THEN [ivt |-> IndexedValueType_value[d.str], err |-> NoErr] ELSE InvalidType
      [] d.shape = "IndexedValueType" ->
            IF d.num \in DOMAIN IndexedValueType_name
            THEN [ivt |-> d.num, err |-> NoErr] ELSE InvalidType
      [] OTHER -> InvalidType

\* a bug: on a failed coercion the entries written so far are returned
BuildFailed_partial(result, err, seen) == [m |-> MakeMap(result), err |-> err, seen |-> seen]

\* line 62: return nil, err
BuildFailed(result, err, seen) == [m |-> NilMap, err |-> err, seen |-> seen]

\* a bug: the map is returned without its last entry
BuildDone_short(result, seen) ==
    LET last == CHOOSE n \in DOMAIN result : TRUE
    IN  [m |-> MakeMap([n \in (DOMAIN result) \ {last} |-> result[n]]), err |-> NoErr, seen |-> seen]

\* line 65: return result, nil
BuildDone(result, seen) == [m |-> MakeMap(result), err |-> NoErr, seen |-> seen]

RECURSIVE BuildLoop(_, _, _, _)
\* lines 58-64: the range over validSearchAttributes, visited in `order`
BuildLoop(cfg, order, result, seen) ==
    IF order = <<>>
    THEN BuildDone(result, seen)
    ELSE LET saName == Head(order)
             c      == convertDynamicConfigType(cfg[saName])
             result2 == Put(result, saName, c.ivt)
         IN  IF c.err # NoErr
             THEN BuildFailed(result2, c.err, seen)
             ELSE BuildLoop(cfg, Tail(order), result2, seen + 1)

BuildTypeMap(fn, order) ==
    IF fn.isNil
    THEN [m |-> NilMap, err |-> NoErr, seen |-> 0]
    ELSE IF Cardinality(DOMAIN fn.kv) = 0
         THEN [m |-> NilMap, err |-> NoErr, seen |-> 0]
         ELSE BuildLoop(fn.kv, order, EmptyKV, 0)

---------------------------------------------------------------------------
\* GetType.

\* a bug: the emptiness of the type map is not checked first
GetType_noEmptyCheck(name, tm) ==
    IF name \notin DOMAIN tm.kv
    THEN [type |-> INDEXED_VALUE_TYPE_UNSPECIFIED, err |-> ErrInvalidName, typeMap |-> tm]
    ELSE [type |-> tm.kv[name], err |-> NoErr, typeMap |-> tm]

\* a bug: a missing name is reported as the zero value without an error
GetType_noNameCheck(name, tm) ==
    IF MapLen(tm) = 0
    THEN [type |-> INDEXED_VALUE_TYPE_UNSPECIFIED, err |-> ErrTypeMapIsEmpty, typeMap |-> tm]
    ELSE IF name \notin DOMAIN tm.kv
         THEN [type |-> INDEXED_VALUE_TYPE_UNSPECIFIED, err |-> NoErr, typeMap |-> tm]
         ELSE [type |-> tm.kv[name], err |-> NoErr, typeMap |-> tm]

\* the returned type and error, and the type map as the call leaves it
GetType(name, tm) ==
    IF MapLen(tm) = 0
    THEN [type |-> INDEXED_VALUE_TYPE_UNSPECIFIED, err |-> ErrTypeMapIsEmpty, typeMap |-> tm]
    ELSE IF name \notin DOMAIN tm.kv
         THEN [type |-> INDEXED_VALUE_TYPE_UNSPECIFIED, err |-> ErrInvalidName, typeMap |-> tm]
         ELSE [type |-> tm.kv[name], err |-> NoErr, typeMap |-> tm]

NoGet == [called |-> FALSE, name |-> "", type |-> 0, err |-> NoErr, mapBefore |-> NilMap]

---------------------------------------------------------------------------
\* Payloads and collections.

\* a *commonpb.Payload: isNil for the nil pointer, Metadata as a Go map, Data opaque
Payload(meta, data) == [isNil |-> FALSE, meta |-> meta, data |-> data]

NilPayload == [isNil |-> TRUE, meta |-> NilMap, data |-> ""]

MetadataEncoding == "encoding"

\* metadata as the caller hands it in: absent, empty, other keys only, typed upstream
MetadataSamples ==
    { NilMap,
      MakeMap(EmptyKV),
      MakeMap(Put(EmptyKV, MetadataEncoding, "json/plain")),
      MakeMap(Put(Put(EmptyKV, MetadataEncoding, "json/plain"), MetadataType, "Int")) }

PayloadSamples == {NilPayload} \cup {Payload(m, "data") : m \in MetadataSamples}

\* the IndexedFields maps of the model
Collections == UNION {[S -> PayloadSamples] : S \in SUBSET Names}

\* type map values: Unspecified, Keyword, Int and a value outside the enumeration
TypeSamples == {INDEXED_VALUE_TYPE_UNSPECIFIED, 2, 3, 7}

---------------------------------------------------------------------------
\* setMetadataType and ApplyTypeMap.

NoPanic == ""

PanicNilPointer == "invalid memory address or nil pointer dereference"

PanicUnknownType == "unknown index value type"

PanicNilMap == "assignment to entry in nil map"

\* a bug: the metadata is replaced by a map holding the type key alone
setMetadataType_fresh(p, t) ==
    IF t = INDEXED_VALUE_TYPE_UNSPECIFIED
    THEN [p |-> p, panic |-> NoPanic]
    ELSE IF t \notin DOMAIN IndexedValueType_name
         THEN [p |-> p, panic |-> PanicUnknownType]
         ELSE [p |-> [p EXCEPT !.meta = MakeMap(Put(EmptyKV, MetadataType, IndexedValueType_name[t]))],
               panic |-> NoPanic]

\* the payload as the call leaves it, and the panic that ended the call, if any
setMetadataType(p, t) ==
    IF t = INDEXED_VALUE_TYPE_UNSPECIFIED
    THEN [p |-> p, panic |-> NoPanic]
    ELSE IF t \notin DOMAIN IndexedValueType_name
         THEN [p |-> p, panic |-> PanicUnknownType]
         ELSE IF p.meta.isNil
              THEN [p |-> p, panic |-> PanicNilMap]
              ELSE [p |-> [p EXCEPT !.meta.kv = Put(p.meta.kv, MetadataType, IndexedValueType_name[t])],
                    panic |-> NoPanic]

\* a bug: the type key of the metadata is not looked at
metadataHasValueType_never(p) == FALSE

\* line 89: _, metadataHasValueType := saPayload.Metadata[MetadataType]
metadataHasValueType(p) == MetadataType \in DOMAIN p.meta.kv

RECURSIVE ApplyLoop(_, _, _)
\* lines 88-98: the range over IndexedFields, visited in `order`
ApplyLoop(fields, tm, order) ==
    IF order = <<>>
    THEN [fields |-> fields, panic |-> NoPanic]
    ELSE LET saName    == Head(order)
             saPayload == fields[saName]
         IN  IF saPayload.isNil
             THEN [fields |-> fields, panic |-> PanicNilPointer]
             ELSE IF metadataHasValueType(saPayload)
                  THEN ApplyLoop(fields, tm, Tail(order))
                  ELSE IF saName \notin DOMAIN tm.kv
                       THEN ApplyLoop(fields, tm, Tail(order))
                       ELSE LET r == setMetadataType(saPayload, tm.kv[saName])
                            IN  IF r.panic # NoPanic
                                THEN [fields |-> fields, panic |-> r.panic]
                                ELSE ApplyLoop([fields EXCEPT ![saName] = r.p], tm, Tail(order))

\* a bug: the range ends after the first entry it visits
ApplyTypeMap_firstOnly(fields, tm, order) ==
    IF MapLen(tm) = 0
    THEN [fields |-> fields, panic |-> NoPanic]
    ELSE ApplyLoop(fields, tm, IF order = <<>> THEN order ELSE <<Head(order)>>)

ApplyTypeMap(fields, tm, order) ==
    IF MapLen(tm) = 0
    THEN [fields |-> fields, panic |-> NoPanic]
    ELSE ApplyLoop(fields, tm, order)

---------------------------------------------------------------------------
\* The state machines.

InitBuild ==
    /\ validSearchAttributesFn \in ConfigFns
    /\ built = FALSE
    /\ typeMap = NilMap
    /\ buildErr = NoErr
    /\ buildSeen = 0
    /\ getRes = NoGet
    /\ searchAttributes = EmptyKV
    /\ applied = FALSE
    /\ before = EmptyKV
    /\ panicMsg = NoPanic
    /\ repeated = FALSE

InitApply ==
    /\ validSearchAttributesFn = NilMap
    /\ built = FALSE
    /\ typeMap = NilMap
    /\ buildErr = NoErr
    /\ buildSeen = 0
    /\ getRes = NoGet
    /\ searchAttributes \in Collections
    /\ applied = FALSE
    /\ before = searchAttributes
    /\ panicMsg = NoPanic
    /\ repeated = FALSE

\* BuildTypeMap(validSearchAttributesFn), the collaborator's map ranged over in some order
BuildTypeMapCall ==
    /\ \E order \in Orders(DOMAIN validSearchAttributesFn.kv) :
          LET r == BuildTypeMap(validSearchAttributesFn, order)
          IN  /\ typeMap' = r.m
              /\ buildErr' = r.err
              /\ buildSeen' = r.seen
    /\ built' = TRUE
    /\ getRes' = NoGet
    /\ UNCHANGED validSearchAttributesFn
    /\ UNCHANGED applyVars

\* GetType(name, typeMap) on the map the last build returned
GetTypeCall ==
    /\ built
    /\ \E name \in Names \cup {UnknownName} :
          LET r == GetType(name, typeMap)
          IN  /\ getRes' = [called |-> TRUE, name |-> name, type |-> r.type, err |-> r.err,
                            mapBefore |-> typeMap]
              /\ typeMap' = r.typeMap
    /\ UNCHANGED <<validSearchAttributesFn, built, buildErr, buildSeen>>
    /\ UNCHANGED applyVars

\* ApplyTypeMap(searchAttributes, typeMap), IndexedFields ranged over in some order;
\* a panic is not recovered in this package: it ends the program
ApplyTypeMapCall ==
    /\ panicMsg = NoPanic
    /\ \E order \in Orders(DOMAIN searchAttributes) :
          LET r == ApplyTypeMap(searchAttributes, typeMap, order)
          IN  /\ searchAttributes' = r.fields
              /\ panicMsg' = r.panic
    /\ before' = searchAttributes
    /\ applied' = TRUE
    /\ repeated' = applied
    /\ UNCHANGED <<validSearchAttributesFn, built, typeMap, buildErr, buildSeen, getRes>>

\* the caller comes to hold another type map (the configuration was reloaded): what is
\* remembered of the calls made with the old one is forgotten
TypeMapChanged(tm) ==
    /\ panicMsg = NoPanic
    /\ typeMap' = tm
    /\ before' = searchAttributes
    /\ applied' = FALSE
    /\ repeated' = FALSE
    /\ UNCHANGED <<validSearchAttributesFn, built, buildErr, buildSeen, getRes>>
    /\ UNCHANGED <<searchAttributes, panicMsg>>

\* the next type map has one name typed differently, or one name more
SetTypeMapEntry ==
    \E n \in Names, t \in TypeSamples :
        /\ ~(n \in DOMAIN typeMap.kv /\ typeMap.kv[n] = t)
        /\ TypeMapChanged(MakeMap(Put(typeMap.kv, n, t)))

\* the next type map has one name less
DropTypeMapEntry ==
    \E n \in DOMAIN typeMap.kv :
        TypeMapChanged(MakeMap([x \in (DOMAIN typeMap.kv) \ {n} |-> typeMap.kv[x]]))

\* the next type map is nil
ClearTypeMap ==
    /\ ~typeMap.isNil
    /\ TypeMapChanged(NilMap)

NextBuild == BuildTypeMapCall \/ GetTypeCall

NextApply == ApplyTypeMapCall \/ SetTypeMapEntry \/ DropTypeMapEntry \/ ClearTypeMap

SpecBuild == InitBuild /\ [][NextBuild]_vars

SpecApply == InitApply /\ [][NextApply]_vars

---------------------------------------------------------------------------
\* Properties of BuildTypeMap and GetType (SpecBuild).

KnownCodes == DOMAIN IndexedValueType_name

\* the collaborator is there and returns a non-empty mapping
ConfigNonEmpty == ~validSearchAttributesFn.isNil /\ MapLen(validSearchAttributesFn) > 0

\* d is a known numeric code, a known canonical name or a known enum value
KnownDescriptor(d) ==
    \/ d.shape = "int" /\ d.hi = 0 /\ d.num \in KnownCodes
    \/ d.shape = "float64" /\ d.num >= 0 /\ d.num % 2 = 0 /\ (d.num \div 2) \in KnownCodes
    \/ d.shape = "string" /\ \E i \in 1..Len(IndexedValueTypeNames) : IndexedValueTypeNames[i] = d.str
    \/ d.shape = "IndexedValueType" /\ d.num \in KnownCodes

\* the enumeration value a known descriptor denotes
Denoted(d) ==
    CASE d.shape = "int" -> d.num
      [] d.shape = "float64" -> d.num \div 2
      [] d.shape = "string" ->
            (CHOOSE i \in 1..Len(IndexedValueTypeNames) : IndexedValueTypeNames[i] = d.str) - 1
      [] OTHER -> d.num

\* the value of an int descriptor fits 32 bits and a float64 descriptor is whole:
\* the conversion to int32 loses nothing
ExactDescriptor(d) ==
    /\ d.shape = "int" => (d.hi = 0 /\ d.num >= 0) \/ (d.hi = -1 /\ d.num < 0)
    /\ d.shape = "float64" => d.num % 2 = 0

\* C1: a type map BuildTypeMap returns without error maps no name to Unspecified
\* (stated for configurations whose numbers convert to int32 without loss).
C1_NoUnspecifiedInTypeMap ==
    (built /\ buildErr = NoErr
           /\ \A n \in DOMAIN validSearchAttributesFn.kv :
                 ExactDescriptor(validSearchAttributesFn.kv[n])) =>
        \A n \in DOMAIN typeMap.kv : typeMap.kv[n] # INDEXED_VALUE_TYPE_UNSPECIFIED

\* C2: when every descriptor of a non-empty configuration is known, BuildTypeMap
\* succeeds and returns a map with the keys of the configuration, each name mapped
\* to the enumeration value its descriptor denotes.
C2_KnownDescriptorsBuild ==
    (built /\ ConfigNonEmpty
           /\ \A n \in DOMAIN validSearchAttributesFn.kv :
                 KnownDescriptor(validSearchAttributesFn.kv[n])) =>
        /\ buildErr = NoErr
        /\ ~typeMap.isNil
        /\ DOMAIN typeMap.kv = DOMAIN validSearchAttributesFn.kv
        /\ MapLen(typeMap) = MapLen(validSearchAttributesFn)
        /\ \A n \in DOMAIN typeMap.kv : typeMap.kv[n] = Denoted(validSearchAttributesFn.kv[n])

\* a build of two known descriptors of different shapes has returned
C2_Witness ==
    /\ built
    /\ MapLen(validSearchAttributesFn) >= 2
    /\ \A n \in DOMAIN validSearchAttributesFn.kv : KnownDescriptor(validSearchAttributesFn.kv[n])
    /\ \E n, m \in DOMAIN validSearchAttributesFn.kv :
          /\ validSearchAttributesFn.kv[n].shape = "int"
          /\ validSearchAttributesFn.kv[m].shape = "string"
          /\ typeMap.kv[n] = 6
          /\ typeMap.kv[m] = 2

\* C3: when the coercion of some entry fails, BuildTypeMap returns an Invalid-Type
\* error and the nil map, whatever the order of the visit.
C3_AllOrNothing ==
    (built /\ ConfigNonEmpty
           /\ \E n \in DOMAIN validSearchAttributesFn.kv :
                 convertDynamicConfigType(validSearchAttributesFn.kv[n]).err # NoErr) =>
        /\ buildErr = ErrInvalidType
        /\ typeMap = NilMap

\* a build failed after it had coerced a valid entry
C3_Witness == built /\ buildErr = ErrInvalidType /\ buildSeen >= 1

\* C4: an absent collaborator or an empty mapping gives the nil map and no error,
\* and GetType on it fails with Type-Map-Empty.
C4_AbsentOrEmptyConfig ==
    (built /\ ~ConfigNonEmpty) =>
        /\ MapLen(typeMap) = 0
        /\ buildErr = NoErr
        /\ getRes.called => getRes.err = ErrTypeMapIsEmpty

\* GetType was called on the result of a build from an empty mapping
C4_Witness ==
    /\ built
    /\ ~validSearchAttributesFn.isNil
    /\ MapLen(validSearchAttributesFn) = 0
    /\ getRes.called
    /\ getRes.name \in Names

\* C5: on a non-empty type map GetType returns the mapped type and no error for a
\* key, Unspecified and Invalid-Name for another name, and leaves the map as it was.
C5_GetTypeOnNonEmptyMap ==
    (getRes.called /\ MapLen(getRes.mapBefore) > 0) =>
        /\ getRes.name \in DOMAIN getRes.mapBefore.kv =>
              getRes.type = getRes.mapBefore.kv[getRes.name] /\ getRes.err = NoErr
        /\ getRes.name \notin DOMAIN getRes.mapBefore.kv =>
              getRes.type = INDEXED_VALUE_TYPE_UNSPECIFIED /\ getRes.err = ErrInvalidName
        /\ typeMap = getRes.mapBefore

\* GetType was called with a name that a type map of two names does not hold
C5_Witness ==
    /\ getRes.called
    /\ MapLen(getRes.mapBefore) >= 2
    /\ getRes.name \notin DOMAIN getRes.mapBefore.kv
    /\ getRes.err = ErrInvalidName

\* C10: an int descriptor whose value is no known numeric code fails the build
\* (stated for configurations none of whose descriptors is taken for Unspecified).
C10_IntOutsideCodesRejected ==
    (built /\ (\E n \in DOMAIN validSearchAttributesFn.kv :
                 /\ validSearchAttributesFn.kv[n].shape = "int"
                 /\ ~KnownDescriptor(validSearchAttributesFn.kv[n]))
           /\ (\A n \in DOMAIN validSearchAttributesFn.kv :
                 LET c == convertDynamicConfigType(validSearchAttributesFn.kv[n])
                 IN  c.err = NoErr => c.ivt # INDEXED_VALUE_TYPE_UNSPECIFIED)) =>
        /\ buildErr = ErrInvalidType
        /\ typeMap = NilMap

---------------------------------------------------------------------------
\* Properties of ApplyTypeMap (SpecApply).

\* the payload is there and its metadata holds the type key
HasTypeKey(p) == ~p.isNil /\ MetadataType \in DOMAIN p.meta.kv

\* C6: once the metadata of an entry holds the type key, no step changes its value.
C6_TypeWrittenOnce ==
    [][\A n \in DOMAIN searchAttributes :
          HasTypeKey(searchAttributes[n]) =>
              /\ n \in DOMAIN searchAttributes'
              /\ HasTypeKey(searchAttributes'[n])
              /\ searchAttributes'[n].meta.kv[MetadataType] =
                    searchAttributes[n].meta.kv[MetadataType]]_vars

\* a call has returned whose type map disagreed with a type an earlier call wrote
\* ("Keyword" is written by this package only) and with a type set upstream ("Int")
C6_Witness ==
    /\ applied
    /\ panicMsg = NoPanic
    /\ \E n, m \in DOMAIN before :
          /\ HasTypeKey(before[n])
          /\ before[n].meta.kv[MetadataType] = "Keyword"
          /\ n \in DOMAIN typeMap.kv
          /\ typeMap.kv[n] = 3
          /\ HasTypeKey(before[m])
          /\ before[m].meta.kv[MetadataType] = "Int"
          /\ m \in DOMAIN typeMap.kv
          /\ typeMap.kv[m] = 2

\* C7: a second ApplyTypeMap with the same type map leaves the collection as the
\* first one left it.
C7_Idempotent == repeated => searchAttributes = before

\* the second of two calls with the same type map has returned, and the type map
\* types an entry that carries the type this package writes for it
C7_Witness ==
    /\ repeated
    /\ panicMsg = NoPanic
    /\ \E n \in DOMAIN searchAttributes :
          /\ n \in DOMAIN typeMap.kv
          /\ typeMap.kv[n] = 2
          /\ HasTypeKey(searchAttributes[n])
          /\ searchAttributes[n].meta.kv[MetadataType] = "Keyword"

\* C8: a call changes nothing but the type key of entries the type map names: the
\* entries, their data and their other metadata stay, and nothing changes under an
\* empty or nil type map.
C8_Frame ==
    applied =>
        /\ DOMAIN searchAttributes = DOMAIN before
        /\ \A n \in DOMAIN before :
              /\ searchAttributes[n].isNil = before[n].isNil
              /\ searchAttributes[n].data = before[n].data
              /\ searchAttributes[n].meta.isNil = before[n].meta.isNil
              /\ DOMAIN before[n].meta.kv \subseteq DOMAIN searchAttributes[n].meta.kv
              /\ \A k \in DOMAIN before[n].meta.kv :
                    searchAttributes[n].meta.kv[k] = before[n].meta.kv[k]
              /\ DOMAIN searchAttributes[n].meta.kv \subseteq
                    (DOMAIN before[n].meta.kv) \cup {MetadataType}
              /\ searchAttributes[n] # before[n] => n \in DOMAIN typeMap.kv
        /\ MapLen(typeMap) = 0 => searchAttributes = before

\* a call stamped an entry that holds another metadata key and passed over an
\* untyped entry the type map does not name
C8_Witness ==
    /\ applied
    /\ \E n, m \in DOMAIN before :
          /\ ~HasTypeKey(before[n])
          /\ HasTypeKey(searchAttributes[n])
          /\ MetadataEncoding \in DOMAIN before[n].meta.kv
          /\ m \notin DOMAIN typeMap.kv
          /\ ~HasTypeKey(before[m])
          /\ ~before[m].isNil

\* the entry lacks the type key and the type map gives its name a known type other
\* than Unspecified
Eligible(n) ==
    /\ ~before[n].isNil
    /\ MetadataType \notin DOMAIN before[n].meta.kv
    /\ n \in DOMAIN typeMap.kv
    /\ typeMap.kv[n] \in KnownCodes \ {INDEXED_VALUE_TYPE_UNSPECIFIED}

\* C9: a call with a non-empty type map, on a collection of payloads that are
\* there and a type map of known types, returns normally and leaves every eligible
\* entry with the canonical name of its type under the type key.
C9_StampsEveryEligible ==
    (applied /\ MapLen(typeMap) > 0
             /\ (\A n \in DOMAIN before : ~before[n].isNil)
             /\ (\A n \in DOMAIN typeMap.kv : typeMap.kv[n] \in KnownCodes)) =>
        /\ panicMsg = NoPanic
        /\ \A n \in DOMAIN before :
              Eligible(n) =>
                  /\ HasTypeKey(searchAttributes[n])
                  /\ searchAttributes[n].meta.kv[MetadataType] =
                        IndexedValueType_name[typeMap.kv[n]]

====
